---- MODULE Spec2Model ----
(***************************************************************************)
(* A model of medium_scraper.py (class MediumScraper): the three           *)
(* extraction strategies, the markup normalizer, the coordinator that      *)
(* orders them, and the record/summary assembly.                           *)
(*                                                                         *)
(* Text is a sequence of one-character strings.  A document is given by    *)
(* what re.search / re.findall / json.loads make of it: the embedded graph *)
(* (or its absence, or a parse failure), the list of structured-data       *)
(* blocks, and the inner markup of the regions each tag pattern matches.   *)
(***************************************************************************)
EXTENDS Integers, Sequences, FiniteSets, TLC

VARIABLES
    cleanPc, cleanIn, cleanOut1, cleanOut2,   \* the normalizer: input, first and second output
    apolloPc, apolloIn, apolloOut,            \* the graph reader: embedding and output
    jsonldPc, jsonldIn, jsonldOut,            \* the structured-data reader: blocks and output
    tagsPc, tagsIn, tagsOut,                  \* the tag-region extractor: regions and output
    pc, doc, content, result, calls, caught,  \* extract_article_content on one document
    scrapePc, stories, max_articles, articles, results, saved   \* the scraping run

cleanVars == <<cleanPc, cleanIn, cleanOut1, cleanOut2>>

apolloVars == <<apolloPc, apolloIn, apolloOut>>

jsonldVars == <<jsonldPc, jsonldIn, jsonldOut>>

tagsVars == <<tagsPc, tagsIn, tagsOut>>

coordVars == <<pc, doc, content, result, calls, caught>>

scrapeVars == <<scrapePc, stories, max_articles, articles, results, saved>>

vars == <<cleanPc, cleanIn, cleanOut1, cleanOut2, apolloPc, apolloIn, apolloOut,
          jsonldPc, jsonldIn, jsonldOut, tagsPc, tagsIn, tagsOut,
          pc, doc, content, result, calls, caught,
          scrapePc, stories, max_articles, articles, results, saved>>

(***************************************************************************)
(* Bounds of the model.                                                    *)
(***************************************************************************)
MaxTextLen == 4

MaxParas == 2

MaxBlocks == 2

MaxRegions == 2

MaxArticles == 2

(***************************************************************************)
(* Text helpers.                                                           *)
(***************************************************************************)
Str(n, c) == [i \in 1..n |-> c]

MinOf(S) == CHOOSE x \in S : \A y \in S : x <= y

MaxOf(S) == 0 - MinOf({0 - x : x \in S})

\* Python's str.strip() and the regex class \s on the characters of the model.
IsSpace(c) == c \in {" ", "\n", "\t"}

\* str.strip(): drop leading and trailing whitespace.
Strip(s) ==
    LET keep == {i \in 1..Len(s) : ~IsSpace(s[i])}
    IN  IF keep = {} THEN <<>> ELSE SubSeq(s, MinOf(keep), MaxOf(keep))

\* re.IGNORECASE on the letters the patterns name.
Lower(c) ==
    CASE c = "S" -> "s" [] c = "C" -> "c" [] c = "R" -> "r" [] c = "I" -> "i"
      [] c = "P" -> "p" [] c = "T" -> "t" [] c = "Y" -> "y" [] c = "L" -> "l"
      [] c = "E" -> "e" [] OTHER -> c

\* The literal pat occurs in s at index i.
MatchAt(s, i, pat) ==
    /\ i >= 1
    /\ i + Len(pat) - 1 <= Len(s)
    /\ \A k \in 1..Len(pat) : s[i + k - 1] = pat[k]

MatchAtCI(s, i, pat) ==
    /\ i >= 1
    /\ i + Len(pat) - 1 <= Len(s)
    /\ \A k \in 1..Len(pat) : Lower(s[i + k - 1]) = pat[k]

\* First index >= from holding character c, 0 when there is none.
IndexOf(s, c, from) ==
    LET hits == {i \in from..Len(s) : s[i] = c}
    IN  IF hits = {} THEN 0 ELSE MinOf(hits)

\* First index >= from where the literal pat occurs (case-insensitively), 0 if none.
FindCI(s, pat, from) ==
    LET hits == {i \in from..Len(s) : MatchAtCI(s, i, pat)}
    IN  IF hits = {} THEN 0 ELSE MinOf(hits)

(***************************************************************************)
(* clean_html_content, one operator per re.sub.                            *)
(***************************************************************************)

\* re.sub(r'<NAME[^>]*>.*?</NAME>', '', html, DOTALL | IGNORECASE), from index pos.
\* open is "<NAME", close is "</NAME>".
RECURSIVE RemoveElementFrom(_, _, _, _)
RemoveElementFrom(s, open, close, pos) ==
    LET gt(i) == IndexOf(s, ">", i + Len(open))
        end(i) == IF gt(i) = 0 THEN 0 ELSE FindCI(s, close, gt(i) + 1)
        starts == {i \in pos..Len(s) : MatchAtCI(s, i, open) /\ end(i) # 0}
    IN  IF starts = {} THEN SubSeq(s, pos, Len(s))
        ELSE LET i == MinOf(starts)
             IN  SubSeq(s, pos, i - 1)
                   \o RemoveElementFrom(s, open, close, end(i) + Len(close))

RemoveElement(s, open, close) == RemoveElementFrom(s, open, close, 1)

IsLevel(c) == c \in {"1", "2", "3", "4", "5", "6"}

LevelOf(c) ==
    CASE c = "1" -> 1 [] c = "2" -> 2 [] c = "3" -> 3
      [] c = "4" -> 4 [] c = "5" -> 5 [] OTHER -> 6

\* '</h[1-6]>' at index e.
HeadingCloseAt(s, e) ==
    /\ MatchAt(s, e, <<"<", "/", "h">>)
    /\ e + 4 <= Len(s)
    /\ IsLevel(s[e + 3])
    /\ s[e + 4] = ">"

\* re.sub(r'<h([1-6])[^>]*>(.*?)</h[1-6]>', '\n' + '#'*n + ' ' + inner + '\n', html):
\* case-sensitive, and '.' does not cross a line break.
RECURSIVE ConvertHeadersFrom(_, _)
ConvertHeadersFrom(s, pos) ==
    LET opens(i) == MatchAt(s, i, <<"<", "h">>) /\ i + 2 <= Len(s) /\ IsLevel(s[i + 2])
        gt(i) == IndexOf(s, ">", i + 3)
        closes(i) == {e \in (gt(i) + 1)..Len(s) :
                        /\ HeadingCloseAt(s, e)
                        /\ \A k \in (gt(i) + 1)..(e - 1) : s[k] # "\n"}
        starts == {i \in pos..Len(s) : opens(i) /\ gt(i) # 0 /\ closes(i) # {}}
    IN  IF starts = {} THEN SubSeq(s, pos, Len(s))
        ELSE LET i == MinOf(starts)
                 e == MinOf(closes(i))
             IN  SubSeq(s, pos, i - 1)
                   \o <<"\n">> \o Str(LevelOf(s[i + 2]), "#") \o <<" ">>
                   \o SubSeq(s, gt(i) + 1, e - 1) \o <<"\n">>
                   \o ConvertHeadersFrom(s, e + 5)

ConvertHeaders(s) == ConvertHeadersFrom(s, 1)

\* re.sub(prefix + r'[^>]{minInner,}>', repl, html): a tag from its prefix to the
\* first '>' after it.
RECURSIVE ReplaceTagFrom(_, _, _, _, _)
ReplaceTagFrom(s, prefix, minInner, repl, pos) ==
    LET gt(i) == IndexOf(s, ">", i + Len(prefix))
        starts == {i \in pos..Len(s) :
                     /\ MatchAt(s, i, prefix)
                     /\ gt(i) # 0
                     /\ gt(i) - (i + Len(prefix)) >= minInner}
    IN  IF starts = {} THEN SubSeq(s, pos, Len(s))
        ELSE LET i == MinOf(starts)
             IN  SubSeq(s, pos, i - 1) \o repl
                   \o ReplaceTagFrom(s, prefix, minInner, repl, gt(i) + 1)

ReplaceTag(s, prefix, minInner, repl) == ReplaceTagFrom(s, prefix, minInner, repl, 1)

\* re.sub of a literal.
RECURSIVE ReplaceLiteralFrom(_, _, _, _)
ReplaceLiteralFrom(s, lit, repl, pos) ==
    LET starts == {i \in pos..Len(s) : MatchAt(s, i, lit)}
    IN  IF starts = {} THEN SubSeq(s, pos, Len(s))
        ELSE LET i == MinOf(starts)
             IN  SubSeq(s, pos, i - 1) \o repl
                   \o ReplaceLiteralFrom(s, lit, repl, i + Len(lit))

ReplaceLiteral(s, lit, repl) == ReplaceLiteralFrom(s, lit, repl, 1)

\* html.unescape's named references, restricted to the names the texts of the
\* model can spell: lt, lt;, gt, gt;, amp, amp;.
IsEntityName(n) ==
    n \in {<<"l", "t">>, <<"l", "t", ";">>, <<"g", "t">>, <<"g", "t", ";">>,
           <<"a", "m", "p">>, <<"a", "m", "p", ";">>}

EntityChar(n) ==
    CASE n[1] = "l" -> "<" [] n[1] = "g" -> ">" [] OTHER -> "&"

\* A character of a reference name: [^\t\n\f <&#;].
IsNameChar(c) == c \notin {"\t", "\n", "\f", " ", "<", "&", "#", ";"}

\* html.unescape(html): at each '&', the name is the run of name characters (at most
\* 32) and an optional ';'; a known name is replaced, otherwise its longest known
\* prefix of two or more characters is, otherwise the text is kept.
RECURSIVE UnescapeFrom(_, _)
UnescapeFrom(s, pos) ==
    LET runEnd(a) ==
            LET stops == {j \in (a + 1)..Len(s) : ~IsNameChar(s[j]) \/ j > a + 32}
            IN  IF stops = {} THEN Len(s) ELSE MinOf(stops) - 1
        nameEnd(a) ==
            IF runEnd(a) < Len(s) /\ s[runEnd(a) + 1] = ";"
            THEN runEnd(a) + 1 ELSE runEnd(a)
        amps == {a \in pos..Len(s) : s[a] = "&" /\ runEnd(a) > a}
    IN  IF amps = {} THEN SubSeq(s, pos, Len(s))
        ELSE LET a == MinOf(amps)
                 name == SubSeq(s, a + 1, nameEnd(a))
                 known == {x \in 2..(Len(name) - 1) : IsEntityName(SubSeq(name, 1, x))}
                 out == IF IsEntityName(name) THEN <<EntityChar(name)>>
                        ELSE IF known # {}
                             THEN <<EntityChar(name)>>
                                    \o SubSeq(name, MaxOf(known) + 1, Len(name))
                             ELSE <<"&">> \o name
             IN  SubSeq(s, pos, a - 1) \o out \o UnescapeFrom(s, nameEnd(a) + 1)

Unescape(s) == UnescapeFrom(s, 1)

\* re.sub(r'\n\s*\n\s*\n', '\n\n', html): a whitespace run from a line break to the
\* last line break of the run, holding three or more line breaks.
RECURSIVE CollapseBlankLinesFrom(_, _)
CollapseBlankLinesFrom(s, pos) ==
    LET runEnd(i) ==
            LET stops == {j \in i..Len(s) : ~IsSpace(s[j])}
            IN  IF stops = {} THEN Len(s) ELSE MinOf(stops) - 1
        breaks(i) == {j \in i..runEnd(i) : s[j] = "\n"}
        starts == {i \in pos..Len(s) : s[i] = "\n" /\ Cardinality(breaks(i)) >= 3}
    IN  IF starts = {} THEN SubSeq(s, pos, Len(s))
        ELSE LET i == MinOf(starts)
             IN  SubSeq(s, pos, i - 1) \o <<"\n", "\n">>
                   \o CollapseBlankLinesFrom(s, MaxOf(breaks(i)) + 1)

CollapseBlankLines(s) == CollapseBlankLinesFrom(s, 1)

\* re.sub(r' +', ' ', html): a run of spaces becomes one space.
RECURSIVE CollapseSpacesFrom(_, _)
CollapseSpacesFrom(s, pos) ==
    LET doubles == {i \in pos..(Len(s) - 1) : s[i] = " " /\ s[i + 1] = " "}
    IN  IF doubles = {} THEN SubSeq(s, pos, Len(s))
        ELSE LET i == MinOf(doubles)
                 after == {j \in i..Len(s) : s[j] # " "}
                 next == IF after = {} THEN Len(s) + 1 ELSE MinOf(after)
             IN  SubSeq(s, pos, i) \o CollapseSpacesFrom(s, next)

\* re.sub(r' +', '', html): the spaces are dropped.
CollapseSpacesDropped(s) == SelectSeq(s, LAMBDA c : c # " ")

CollapseSpaces(s) == CollapseSpacesFrom(s, 1)

\* clean_html_content(html).
clean_html_content(html) ==
    LET h1 == RemoveElement(html, <<"<", "s", "c", "r", "i", "p", "t">>,
                            <<"<", "/", "s", "c", "r", "i", "p", "t", ">">>)
        h2 == RemoveElement(h1, <<"<", "s", "t", "y", "l", "e">>,
                            <<"<", "/", "s", "t", "y", "l", "e", ">">>)
        h3 == ConvertHeaders(h2)
        h4 == ReplaceTag(h3, <<"<", "p">>, 0, <<"\n">>)
        h5 == ReplaceLiteral(h4, <<"<", "/", "p", ">">>, <<"\n">>)
        h6 == ReplaceTag(h5, <<"<", "b", "r">>, 0, <<"\n">>)
        h7 == ReplaceTag(h6, <<"<">>, 1, <<>>)
        h8 == Unescape(h7)
        h9 == CollapseBlankLines(h8)
        h10 == CollapseSpaces(h9)
    IN  Strip(h10)

(***************************************************************************)
(* The embedded-state graph as json.loads returns it: the entries of the   *)
(* top-level object in their order, each a key and a value.  A value is a  *)
(* record of what the reader asks of it: whether it is a dict, and the     *)
(* fields '__typename', 'content', 'bodyModel', 'paragraphs', 'text' and   *)
(* 'type'.                                                                 *)
(***************************************************************************)

\* A field that may hold {"__ref": key}: absent, a reference object, a reference
\* object whose key is unhashable (a list), or any other value.
Missing == [kind |-> "missing", key |-> ""]

NotRef == [kind |-> "other", key |-> ""]

Ref(k) == [kind |-> "ref", key |-> k]

RefUnhashable == [kind |-> "unhashable", key |-> ""]

\* isinstance(x, dict) and '__ref' in x
IsRef(f) == f.kind \in {"ref", "unhashable"}

\* 'paragraphs': absent, a list, or a value a for loop cannot iterate.
NoParagraphs == [kind |-> "missing", items |-> <<>>]

ParagraphList(items) == [kind |-> "list", items |-> items]

ParagraphsScalar == [kind |-> "scalar", items |-> <<>>]

\* 'text': absent, a string, or a value without .strip().
NoText == [kind |-> "missing", s |-> <<>>]

Text(s) == [kind |-> "str", s |-> s]

TextNotString == [kind |-> "other", s |-> <<>>]

\* {} : what apollo_data.get(key, {}) and x.get(field, {}) default to.
EmptyDict ==
    [isDict |-> TRUE, typename |-> "", content |-> Missing, bodyModel |-> Missing,
     paragraphs |-> NoParagraphs, text |-> NoText, type |-> "missing"]

\* A top-level value that is not a dict (a string, a number, a list).
NotADict == [EmptyDict EXCEPT !.isDict = FALSE]

PostNode(content_ref) ==
    [EmptyDict EXCEPT !.typename = "Post", !.content = content_ref]

ContentNode(bodyModel) ==
    [EmptyDict EXCEPT !.typename = "PostContent", !.bodyModel = bodyModel]

BodyNode(paragraphs) ==
    [EmptyDict EXCEPT !.typename = "RichText", !.paragraphs = paragraphs]

ParagraphNode(text, type) ==
    [EmptyDict EXCEPT !.typename = "Paragraph", !.text = text, !.type = type]

Entry(k, node) == [key |-> k, node |-> node]

Keys(graph) == {graph[i].key : i \in 1..Len(graph)}

\* apollo_data.get(key, {})
Get(graph, k) ==
    IF k \in Keys(graph)
    THEN graph[CHOOSE i \in 1..Len(graph) : graph[i].key = k].node
    ELSE EmptyDict

\* The backquote character (a string of the module cannot hold one), and the
\* three of them that fence a preformatted block.
Backquote == "backquote"

Fence == <<Backquote, Backquote, Backquote>>

\* '\n\n'.join(parts)
RECURSIVE Join(_, _)
Join(parts, sep) ==
    IF parts = <<>> THEN <<>>
    ELSE IF Len(parts) = 1 THEN parts[1]
    ELSE parts[1] \o sep \o Join(Tail(parts), sep)

\* The fragments with the H4 marker written as the H3 marker.
FragmentH4AsH3(type, text) ==
    CASE type \in {"H3", "H4"} -> <<"\n", "#", "#", "#", " ">> \o text \o <<"\n">>
      [] type = "BQ" -> <<"\n", ">", " ">> \o text \o <<"\n">>
      [] type = "PRE" -> <<"\n">> \o Fence \o <<"\n">> \o text
                           \o <<"\n">> \o Fence \o <<"\n">>
      [] OTHER -> text

\* The fragment appended for a paragraph of the given type and trimmed text.
Fragment(type, text) ==
    CASE type = "H3" -> <<"\n", "#", "#", "#", " ">> \o text \o <<"\n">>
      [] type = "H4" -> <<"\n", "#", "#", "#", "#", " ">> \o text \o <<"\n">>
      [] type = "BQ" -> <<"\n", ">", " ">> \o text \o <<"\n">>
      [] type = "PRE" -> <<"\n">> \o Fence \o <<"\n">> \o text
                           \o <<"\n">> \o Fence \o <<"\n">>
      [] OTHER -> text

\* One turn of 'for para_ref in paragraphs': what it appends (parts), whether it
\* raises, and the look-ups in the graph it makes.
ParagraphStep(graph, para_ref) ==
    IF ~IsRef(para_ref) THEN [raised |-> FALSE, parts |-> <<>>, lookups |-> 0]
    ELSE IF para_ref.kind = "unhashable"
    THEN [raised |-> TRUE, parts |-> <<>>, lookups |-> 1]
    ELSE LET para_obj == Get(graph, para_ref.key)
         IN  IF ~para_obj.isDict \/ para_obj.text.kind = "other"
             THEN [raised |-> TRUE, parts |-> <<>>, lookups |-> 1]
             ELSE LET text == Strip(para_obj.text.s)
                  IN  [raised |-> FALSE,
                       parts |-> IF text # <<>>
                                 THEN <<Fragment(para_obj.type, text)>> ELSE <<>>,
                       lookups |-> 1]

\* The loop over paragraphs from index i with content_parts = parts so far.
RECURSIVE ParagraphLoop(_, _, _, _, _)
ParagraphLoop(graph, paragraphs, i, parts, lookups) ==
    IF i > Len(paragraphs)
    THEN [status |-> "return", out |-> Join(parts, <<"\n", "\n">>), lookups |-> lookups]
    ELSE LET step == ParagraphStep(graph, paragraphs[i])
         IN  IF step.raised
             THEN [status |-> "raise", out |-> <<>>, lookups |-> lookups + step.lookups]
             ELSE ParagraphLoop(graph, paragraphs, i + 1, parts \o step.parts,
                                lookups + step.lookups)

\* The body of 'for key, value in apollo_data.items()' for a Post node: "return"
\* with the joined text, "raise" into the except clause, or "next" when the loop
\* goes on to the following entry.
PostChain(graph, value) ==
    LET content_ref == value.content
    IN  IF ~IsRef(content_ref) THEN [status |-> "next", out |-> <<>>, lookups |-> 0]
        ELSE IF content_ref.kind = "unhashable"
        THEN [status |-> "raise", out |-> <<>>, lookups |-> 1]
        ELSE LET content_obj == Get(graph, content_ref.key)
                 body_ref == content_obj.bodyModel
             IN  IF ~content_obj.isDict
                 THEN [status |-> "raise", out |-> <<>>, lookups |-> 1]
                 ELSE IF ~IsRef(body_ref)
                 THEN [status |-> "next", out |-> <<>>, lookups |-> 1]
                 ELSE IF body_ref.kind = "unhashable"
                 THEN [status |-> "raise", out |-> <<>>, lookups |-> 2]
                 ELSE LET body_obj == Get(graph, body_ref.key)
                      IN  IF ~body_obj.isDict \/ body_obj.paragraphs.kind = "scalar"
                          THEN [status |-> "raise", out |-> <<>>, lookups |-> 2]
                          ELSE ParagraphLoop(graph, body_obj.paragraphs.items, 1, <<>>, 2)

\* isinstance(value, dict) and value.get('__typename') == 'Post'
IsPost(value) == value.isDict /\ value.typename = "Post"

\* The loop ending at the first Post node, whatever its chain ('break' after it).
FindMainPostFirstOnly(graph, i, lookups) ==
    LET posts == {k \in i..Len(graph) : IsPost(graph[k].node)}
    IN  IF posts = {} THEN [status |-> "end", out |-> <<>>, lookups |-> lookups]
        ELSE LET r == PostChain(graph, graph[MinOf(posts)].node)
             IN  IF r.status = "next"
                 THEN [status |-> "end", out |-> <<>>, lookups |-> lookups + r.lookups]
                 ELSE [r EXCEPT !.lookups = lookups + r.lookups]

\* The loop over the graph's entries from index i.
RECURSIVE FindMainPost(_, _, _)
FindMainPost(graph, i, lookups) ==
    IF i > Len(graph) THEN [status |-> "end", out |-> <<>>, lookups |-> lookups]
    ELSE IF ~IsPost(graph[i].node) THEN FindMainPost(graph, i + 1, lookups)
    ELSE LET r == PostChain(graph, graph[i].node)
         IN  IF r.status = "next" THEN FindMainPost(graph, i + 1, lookups + r.lookups)
             ELSE [r EXCEPT !.lookups = lookups + r.lookups]

\* The embedding as apollo_pattern and json.loads find it: no match, a literal
\* json.loads rejects, or the graph.
NoEmbedding == [kind |-> "absent", graph |-> <<>>]

MalformedEmbedding == [kind |-> "malformed", graph |-> <<>>]

Embedding(graph) == [kind |-> "graph", graph |-> graph]

\* extract_from_apollo_state as a trace: how it ended and what it looked up.
ApolloRun(embedding) ==
    IF embedding.kind = "absent" THEN [status |-> "nomatch", out |-> <<>>, lookups |-> 0]
    ELSE IF embedding.kind = "malformed"
    THEN [status |-> "raise", out |-> <<>>, lookups |-> 0]
    ELSE FindMainPost(embedding.graph, 1, 0)

\* The reader with 'except Exception as e: return str(e)'.
extract_from_apollo_state_message(embedding) ==
    LET r == ApolloRun(embedding)
    IN  IF r.status = "return" THEN r.out
        ELSE IF r.status = "raise" THEN <<"e", "r", "r", "o", "r">> ELSE <<>>

\* extract_from_apollo_state(html_content): the joined text, or "" after a raise,
\* a missing embedding or a loop that ends without returning.
extract_from_apollo_state(embedding) ==
    LET r == ApolloRun(embedding)
    IN  IF r.status = "return" THEN r.out ELSE <<>>

(***************************************************************************)
(* Python values that can reach the coordinator: a string, a number, a     *)
(* list or dict (of n elements), or None.                                  *)
(***************************************************************************)
StrVal(s) == [kind |-> "str", s |-> s, n |-> 0]

NumVal(n) == [kind |-> "num", s |-> <<>>, n |-> n]

ListVal(n) == [kind |-> "list", s |-> <<>>, n |-> n]

NoneVal == [kind |-> "none", s |-> <<>>, n |-> 0]

\* bool(v)
Truthy(v) ==
    CASE v.kind = "str" -> v.s # <<>>
      [] v.kind = "num" -> v.n # 0
      [] v.kind = "list" -> v.n > 0
      [] OTHER -> FALSE

\* len(v) is defined (it raises TypeError on a number or None).
HasLen(v) == v.kind \in {"str", "list"}

PyLen(v) == IF v.kind = "str" THEN Len(v.s) ELSE v.n

(***************************************************************************)
(* extract_from_jsonld.  A block is what json.loads makes of one match of  *)
(* jsonld_pattern: a JSONDecodeError, another exception (RecursionError on *)
(* a deeply nested literal), a dict, a list, or a scalar.  An item is a    *)
(* dict (with or without 'articleBody') or something else.                 *)
(***************************************************************************)
Item(isDict, has, body) == [isDict |-> isDict, has |-> has, body |-> body]

DictWith(body) == Item(TRUE, TRUE, body)

DictWithout == Item(TRUE, FALSE, NoneVal)

NotDictItem == Item(FALSE, FALSE, NoneVal)

MalformedBlock == [kind |-> "malformed", items |-> <<>>]

TooDeepBlock == [kind |-> "toodeep", items |-> <<>>]

ScalarBlock == [kind |-> "scalar", items |-> <<>>]

DictBlock(item) == [kind |-> "dict", items |-> <<item>>]

ListBlock(items) == [kind |-> "list", items |-> items]

\* 'for item in data': the first dict item carrying 'articleBody'.
RECURSIVE ListLoop(_, _)
ListLoop(items, i) ==
    IF i > Len(items) THEN [found |-> FALSE, body |-> NoneVal]
    ELSE IF items[i].isDict /\ items[i].has
    THEN [found |-> TRUE, body |-> items[i].body]
    ELSE ListLoop(items, i + 1)

\* 'for match in jsonld_matches' from index i.
RECURSIVE BlockLoop(_, _)
BlockLoop(blocks, i) ==
    IF i > Len(blocks) THEN StrVal(<<>>)
    ELSE LET b == blocks[i]
         IN  CASE b.kind = "malformed" -> BlockLoop(blocks, i + 1)
               [] b.kind = "toodeep" -> StrVal(<<>>)
               [] b.kind = "dict" ->
                    IF b.items[1].has THEN b.items[1].body
                    ELSE BlockLoop(blocks, i + 1)
               [] b.kind = "list" ->
                    LET r == ListLoop(b.items, 1)
                    IN  IF r.found THEN r.body ELSE BlockLoop(blocks, i + 1)
               [] OTHER -> BlockLoop(blocks, i + 1)

extract_from_jsonld(blocks) == BlockLoop(blocks, 1)

(***************************************************************************)
(* extract_from_article_tags.  regions[p] is what re.findall returns for   *)
(* patterns[p]: the inner markup of each match, in document order.         *)
(***************************************************************************)
TagThreshold == 200

\* The loop with 'len(cleaned) >= 200'.
RECURSIVE MatchLoopAtLeast(_, _)
MatchLoopAtLeast(matches, i) ==
    IF i > Len(matches) THEN [found |-> FALSE, text |-> <<>>]
    ELSE LET cleaned == clean_html_content(matches[i])
         IN  IF Len(cleaned) >= TagThreshold
             THEN [found |-> TRUE, text |-> cleaned]
             ELSE MatchLoopAtLeast(matches, i + 1)

\* 'for match in matches' from index i.
RECURSIVE MatchLoop(_, _)
MatchLoop(matches, i) ==
    IF i > Len(matches) THEN [found |-> FALSE, text |-> <<>>]
    ELSE LET cleaned == clean_html_content(matches[i])
         IN  IF Len(cleaned) > TagThreshold
             THEN [found |-> TRUE, text |-> cleaned]
             ELSE MatchLoop(matches, i + 1)

\* 'for pattern in patterns' from index p.
RECURSIVE PatternLoop(_, _)
PatternLoop(regions, p) ==
    IF p > Len(regions) THEN <<>>
    ELSE LET r == MatchLoop(regions[p], 1)
         IN  IF r.found THEN r.text ELSE PatternLoop(regions, p + 1)

extract_from_article_tags(regions) == PatternLoop(regions, 1)

(***************************************************************************)
(* extract_article_content.  A document is the response of session.get     *)
(* (it raised, or a status code) and the three embeddings of its text.     *)
(***************************************************************************)
ApolloThreshold == 500

JsonldThreshold == 500

HttpOk == 200

Document(raises, status, apollo, jsonld, regions) ==
    [raises |-> raises, status_code |-> status, apollo |-> apollo,
     jsonld |-> jsonld, regions |-> regions]

\* 'if content and len(content) > threshold': taken ("yes"), not taken ("no"), or
\* len() raises TypeError ("raise").
Accepts(value, threshold) ==
    IF ~Truthy(value) THEN "no"
    ELSE IF ~HasLen(value) THEN "raise"
    ELSE IF PyLen(value) > threshold THEN "yes" ELSE "no"

\* extract_article_content(url) as a function of the document at url.
extract_article_content(d) ==
    IF d.raises \/ d.status_code # HttpOk THEN StrVal(<<>>)
    ELSE LET a == StrVal(extract_from_apollo_state(d.apollo))
         IN  IF Accepts(a, ApolloThreshold) = "yes" THEN a
             ELSE LET j == extract_from_jsonld(d.jsonld)
                      verdict == Accepts(j, JsonldThreshold)
                  IN  IF verdict = "yes" THEN j
                      ELSE IF verdict = "raise" THEN StrVal(<<>>)
                      ELSE StrVal(extract_from_article_tags(d.regions))

(***************************************************************************)
(* scrape_from_existing_data and save_results.                             *)
(***************************************************************************)
SuccessThreshold == 200

\* The record appended for an article whose content was extracted.
ArticleData(article, text) ==
    [id |-> article.id, content |-> text, content_length |-> PyLen(text),
     extraction_successful |-> PyLen(text) > SuccessThreshold]

\* sum(1 for a in articles): every record counted.
CountAll(records) == Len(records)

\* sum(1 for a in articles if a['extraction_successful'])
RECURSIVE CountSuccessful(_)
CountSuccessful(records) ==
    IF records = <<>> THEN 0
    ELSE (IF records[1].extraction_successful THEN 1 ELSE 0)
           + CountSuccessful(Tail(records))

\* The object save_results dumps.
SavedOutput(records) ==
    [written |-> TRUE,
     total_articles |-> Len(records),
     successful_extractions |-> CountSuccessful(records),
     articles |-> records]

NothingSaved ==
    [written |-> FALSE, total_articles |-> 0, successful_extractions |-> 0,
     articles |-> <<>>]

(***************************************************************************)
(* Each component is exercised by a specification of its own; the          *)
(* variables of the other components then rest at these values.            *)
(***************************************************************************)
IdleClean ==
    /\ cleanPc = "idle"
    /\ cleanIn = <<>>
    /\ cleanOut1 = <<>>
    /\ cleanOut2 = <<>>

IdleApollo ==
    /\ apolloPc = "idle"
    /\ apolloIn = NoEmbedding
    /\ apolloOut = <<>>

IdleJsonld ==
    /\ jsonldPc = "idle"
    /\ jsonldIn = <<>>
    /\ jsonldOut = StrVal(<<>>)

IdleTags ==
    /\ tagsPc = "idle"
    /\ tagsIn = <<>>
    /\ tagsOut = <<>>

IdleCoordinator ==
    /\ pc = "idle"
    /\ doc = Document(TRUE, 0, NoEmbedding, <<>>, <<>>)
    /\ content = StrVal(<<>>)
    /\ result = StrVal(<<>>)
    /\ calls = <<>>
    /\ caught = FALSE

IdleScrape ==
    /\ scrapePc = "idle"
    /\ stories = [readable |-> FALSE, posts |-> <<>>]
    /\ max_articles = 0
    /\ articles = <<>>
    /\ results = <<>>
    /\ saved = NothingSaved

(***************************************************************************)
(* The graph reader applied to an embedding.  The graphs are built from a  *)
(* fixed pool of paragraph nodes, one or two Post nodes, and the shapes a  *)
(* Post node's chain content -> bodyModel -> paragraphs can take.          *)
(***************************************************************************)
ParagraphPool ==
    << Entry("p1", ParagraphNode(Text(<<"l", "t">>), "P")),
       Entry("p2", ParagraphNode(Text(<<" ", "t", " ">>), "H3")),
       Entry("p3", ParagraphNode(Text(<<"l">>), "H4")),
       Entry("p4", ParagraphNode(Text(<<"t", "l">>), "BQ")),
       Entry("p5", ParagraphNode(Text(<<"l", "\n", "t">>), "PRE")),
       Entry("p6", ParagraphNode(Text(<<"t">>), "IMG")),
       Entry("p7", ParagraphNode(Text(<<"l">>), "missing")),
       Entry("p8", ParagraphNode(Text(<<" ", "\n">>), "H3")),
       Entry("p9", ParagraphNode(NoText, "P")),
       Entry("p10", ParagraphNode(TextNotString, "P")),
       Entry("s", NotADict) >>

\* What an element of a 'paragraphs' list can be.
ParagraphItems ==
    {Ref(ParagraphPool[i].key) : i \in 1..Len(ParagraphPool)}
        \cup {Ref("nokey"), Ref("body:1"), NotRef, RefUnhashable}

ParagraphLists == UNION {[1..n -> ParagraphItems] : n \in 0..MaxParas}

\* The first Post node's chain: its content field, the content node's bodyModel
\* field, the body node's paragraphs field.
ChainShapes ==
    {[content |-> c, bodyModel |-> Missing, paragraphs |-> NoParagraphs] :
        c \in {Missing, NotRef, Ref("nokey"), RefUnhashable, Ref("s"), Ref("Post:1")}}
    \cup
    {[content |-> Ref("content:1"), bodyModel |-> b, paragraphs |-> NoParagraphs] :
        b \in {Missing, NotRef, Ref("nokey"), RefUnhashable, Ref("s"), Ref("content:1")}}
    \cup
    {[content |-> Ref("content:1"), bodyModel |-> Ref("body:1"), paragraphs |-> ps] :
        ps \in {NoParagraphs, ParagraphsScalar} \cup {ParagraphList(l) : l \in ParagraphLists}}

\* A second Post node, after the first: none, one without a content field, one
\* whose content key is absent, one whose chain resolves to two paragraphs.
SecondPosts == {"none", "missing", "dangling", "resolves"}

SecondPostEntries(second) ==
    CASE second = "none" -> <<>>
      [] second = "missing" -> <<Entry("Post:2", PostNode(Missing))>>
      [] second = "dangling" -> <<Entry("Post:2", PostNode(Ref("nokey")))>>
      [] OTHER -> <<Entry("Post:2", PostNode(Ref("content:2")))>>

GraphOf(shape, second) ==
    << Entry("ROOT_QUERY", EmptyDict), Entry("Post:1", PostNode(shape.content)) >>
      \o SecondPostEntries(second)
      \o << Entry("content:1", ContentNode(shape.bodyModel)),
            Entry("body:1", BodyNode(shape.paragraphs)),
            Entry("content:2", ContentNode(Ref("body:2"))),
            Entry("body:2", BodyNode(ParagraphList(<<Ref("p1"), Ref("p3")>>))) >>
      \o ParagraphPool

Graphs == {GraphOf(shape, second) : shape \in ChainShapes, second \in SecondPosts}

Embeddings == {NoEmbedding, MalformedEmbedding} \cup {Embedding(g) : g \in Graphs}

InitApollo ==
    /\ apolloPc = "input"
    /\ apolloIn \in Embeddings
    /\ apolloOut = <<>>
    /\ IdleClean /\ IdleJsonld /\ IdleTags /\ IdleCoordinator /\ IdleScrape

ReadGraph ==
    /\ apolloPc = "input"
    /\ apolloOut' = extract_from_apollo_state(apolloIn)
    /\ apolloPc' = "done"
    /\ UNCHANGED apolloIn
    /\ UNCHANGED <<cleanVars, jsonldVars, tagsVars, coordVars, scrapeVars>>

NextApollo == ReadGraph

SpecApollo == InitApollo /\ [][NextApollo]_vars

(***************************************************************************)
(* The structured-data reader applied to a list of blocks.                 *)
(***************************************************************************)
ArticleBodies ==
    {StrVal(<<"l", "t">>), StrVal(<<"t">>), StrVal(<<>>), NumVal(42), NoneVal, ListVal(3)}

BlockPool ==
    {MalformedBlock, TooDeepBlock, ScalarBlock, DictBlock(DictWithout), ListBlock(<<>>),
     ListBlock(<<NotDictItem, DictWithout>>),
     ListBlock(<<NotDictItem, DictWithout, DictWith(StrVal(<<"l">>)), DictWith(StrVal(<<"t">>))>>)}
        \cup {DictBlock(DictWith(b)) : b \in ArticleBodies}

BlockLists == UNION {[1..n -> BlockPool] : n \in 0..MaxBlocks}

InitJsonld ==
    /\ jsonldPc = "input"
    /\ jsonldIn \in BlockLists
    /\ jsonldOut = StrVal(<<>>)
    /\ IdleClean /\ IdleApollo /\ IdleTags /\ IdleCoordinator /\ IdleScrape

ReadBlocks ==
    /\ jsonldPc = "input"
    /\ jsonldOut' = extract_from_jsonld(jsonldIn)
    /\ jsonldPc' = "done"
    /\ UNCHANGED jsonldIn
    /\ UNCHANGED <<cleanVars, apolloVars, tagsVars, coordVars, scrapeVars>>

NextJsonld == ReadBlocks

SpecJsonld == InitJsonld /\ [][NextJsonld]_vars

(***************************************************************************)
(* The tag-region extractor applied to the regions of a document.          *)
(***************************************************************************)
Article == 1

PostArticleDiv == 2

BodySection == 3

\* Inner markup of a region, on both sides of the threshold before and after
\* normalization.
RegionPool ==
    { Str(200, "l"),
      Str(201, "t"),
      <<" ", " ">> \o Str(200, "l") \o <<"\n">>,
      <<"<", "p", ">">> \o Str(201, "l") \o <<"<", "/", "p", ">">>,
      Str(100, "l") \o <<" ", " ", " ">> \o Str(100, "t"),
      <<"<", "s", "c", "r", "i", "p", "t", ">">> \o Str(250, "l")
          \o <<"<", "/", "s", "c", "r", "i", "p", "t", ">", "l", "t">> }

\* The regions of a document: at most MaxRegions matches over the three patterns.
RegionPlacements ==
    UNION {[1..n -> {Article, PostArticleDiv, BodySection} \X RegionPool] : n \in 0..MaxRegions}

InDocumentOrder(placement) ==
    \A i \in 1..(Len(placement) - 1) : placement[i][1] <= placement[i + 1][1]

RECURSIVE MatchesOf(_, _)
MatchesOf(placement, p) ==
    IF placement = <<>> THEN <<>>
    ELSE (IF placement[1][1] = p THEN <<placement[1][2]>> ELSE <<>>)
           \o MatchesOf(Tail(placement), p)

RegionsOf(placement) ==
    <<MatchesOf(placement, Article), MatchesOf(placement, PostArticleDiv),
      MatchesOf(placement, BodySection)>>

RegionInputs == {RegionsOf(pl) : pl \in {x \in RegionPlacements : InDocumentOrder(x)}}

InitTags ==
    /\ tagsPc = "input"
    /\ tagsIn \in RegionInputs
    /\ tagsOut = <<>>
    /\ IdleClean /\ IdleApollo /\ IdleJsonld /\ IdleCoordinator /\ IdleScrape

ScanRegions ==
    /\ tagsPc = "input"
    /\ tagsOut' = extract_from_article_tags(tagsIn)
    /\ tagsPc' = "done"
    /\ UNCHANGED tagsIn
    /\ UNCHANGED <<cleanVars, apolloVars, jsonldVars, coordVars, scrapeVars>>

NextTags == ScanRegions

SpecTags == InitTags /\ [][NextTags]_vars

(***************************************************************************)
(* The coordinator on one document.  Init draws the document; each action  *)
(* is one step of extract_article_content, and calls records the           *)
(* strategies in the order they are invoked.                               *)
(***************************************************************************)

\* A graph whose chain resolves to a heading and a paragraph, n characters joined.
TextGraph(n) ==
    << Entry("ROOT_QUERY", EmptyDict),
       Entry("Post:1", PostNode(Ref("content:1"))),
       Entry("content:1", ContentNode(Ref("body:1"))),
       Entry("body:1", BodyNode(ParagraphList(<<Ref("h"), Ref("p")>>))),
       Entry("h", ParagraphNode(Text(<<"l", "t">>), "H3")),
       Entry("p", ParagraphNode(Text(Str(n - 10, "l")), "P")) >>

\* A graph whose references form a cycle (the Post's content is the Post itself)
\* and one whose paragraph list refers back to the body and the Post.
CycleGraphs ==
    { << Entry("Post:1", [PostNode(Ref("Post:1")) EXCEPT !.bodyModel = Ref("Post:1"),
                             !.paragraphs = ParagraphList(<<Ref("Post:1"), Ref("Post:1")>>),
                             !.text = Text(<<"l">>)]) >>,
      << Entry("Post:1", PostNode(Ref("content:1"))),
         Entry("content:1", ContentNode(Ref("body:1"))),
         Entry("body:1", [BodyNode(ParagraphList(<<Ref("body:1"), Ref("Post:1")>>))
                             EXCEPT !.text = Text(<<"t">>)]) >> }

\* A graph whose content reference names a value that is not a dict.
RaisingGraph ==
    << Entry("Post:1", PostNode(Ref("s"))), Entry("s", NotADict) >>

ApolloChoices ==
    {NoEmbedding, MalformedEmbedding, Embedding(RaisingGraph)}
        \cup {Embedding(g) : g \in CycleGraphs}
        \cup {Embedding(TextGraph(n)) : n \in {30, ApolloThreshold, ApolloThreshold + 1, 600}}

JsonldChoices ==
    { <<>>, <<MalformedBlock>>, <<TooDeepBlock>>,
      <<MalformedBlock,
        ListBlock(<<NotDictItem, DictWith(StrVal(Str(JsonldThreshold + 1, "t")))>>)>> }
        \cup {<<DictBlock(DictWith(StrVal(Str(n, "t"))))>> :
                n \in {30, JsonldThreshold, JsonldThreshold + 1, 800}}
        \cup {<<DictBlock(DictWith(v))>> :
                v \in {NumVal(42), NumVal(0), NoneVal, ListVal(3), ListVal(JsonldThreshold + 1)}}

RegionChoices ==
    { <<<<>>, <<>>, <<>>>>,
      <<<<Str(TagThreshold, "l")>>, <<>>, <<>>>>,
      <<<<Str(TagThreshold + 1, "l")>>, <<>>, <<>>>>,
      <<<<Str(TagThreshold, "l")>>, <<Str(300, "t")>>, <<>>>> }

Responses == {<<TRUE, 0>>, <<FALSE, 404>>, <<FALSE, HttpOk>>}

Documents ==
    {Document(r[1], r[2], a, j, g) :
        r \in Responses, a \in ApolloChoices, j \in JsonldChoices, g \in RegionChoices}

Init ==
    /\ pc = "fetch"
    /\ doc \in Documents
    /\ content = StrVal(<<>>)
    /\ result = StrVal(<<>>)
    /\ calls = <<>>
    /\ caught = FALSE
    /\ IdleClean /\ IdleApollo /\ IdleJsonld /\ IdleTags /\ IdleScrape

Rest == UNCHANGED <<cleanVars, apolloVars, jsonldVars, tagsVars, scrapeVars>>

\* session.get raises: the except clause returns "".
FetchRaises ==
    /\ pc = "fetch"
    /\ doc.raises
    /\ caught' = TRUE
    /\ result' = StrVal(<<>>)
    /\ pc' = "done"
    /\ UNCHANGED <<doc, content, calls>>
    /\ Rest

\* response.status_code != 200: return "".
FetchNotOk ==
    /\ pc = "fetch"
    /\ ~doc.raises
    /\ doc.status_code # HttpOk
    /\ result' = StrVal(<<>>)
    /\ pc' = "done"
    /\ UNCHANGED <<doc, content, calls, caught>>
    /\ Rest

FetchOk ==
    /\ pc = "fetch"
    /\ ~doc.raises
    /\ doc.status_code = HttpOk
    /\ pc' = "apollo"
    /\ UNCHANGED <<doc, content, result, calls, caught>>
    /\ Rest

\* Method 1 without its 'return content': the run goes on to Method 2.
TryApolloNoReturn ==
    /\ pc = "apollo"
    /\ content' = StrVal(extract_from_apollo_state(doc.apollo))
    /\ calls' = Append(calls, "apollo")
    /\ pc' = "jsonld"
    /\ UNCHANGED <<doc, result, caught>>
    /\ Rest

\* Method 1.
TryApollo ==
    /\ pc = "apollo"
    /\ LET c == StrVal(extract_from_apollo_state(doc.apollo))
       IN  /\ content' = c
           /\ calls' = Append(calls, "apollo")
           /\ IF Accepts(c, ApolloThreshold) = "yes"
              THEN result' = c /\ pc' = "done"
              ELSE result' = result /\ pc' = "jsonld"
    /\ UNCHANGED <<doc, caught>>
    /\ Rest

\* Method 2.
TryJsonld ==
    /\ pc = "jsonld"
    /\ LET c == extract_from_jsonld(doc.jsonld)
           verdict == Accepts(c, JsonldThreshold)
       IN  /\ content' = c
           /\ calls' = Append(calls, "jsonld")
           /\ CASE verdict = "yes" -> result' = c /\ pc' = "done" /\ caught' = caught
                [] verdict = "raise" ->
                     result' = StrVal(<<>>) /\ pc' = "done" /\ caught' = TRUE
                [] OTHER -> result' = result /\ pc' = "tags" /\ caught' = caught
    /\ UNCHANGED doc
    /\ Rest

\* Method 3: its result is returned whether or not it passes the length test.
TryTags ==
    /\ pc = "tags"
    /\ LET c == StrVal(extract_from_article_tags(doc.regions))
       IN  /\ content' = c
           /\ calls' = Append(calls, "tags")
           /\ result' = c
           /\ pc' = "done"
    /\ UNCHANGED <<doc, caught>>
    /\ Rest

Next == FetchRaises \/ FetchNotOk \/ FetchOk \/ TryApollo \/ TryJsonld \/ TryTags

Spec == Init /\ [][Next]_vars

(***************************************************************************)
(* The scraping run: main() calls scrape_from_existing_data(max_articles)  *)
(* and, when it returns records, save_results.                             *)
(***************************************************************************)
EmptyRegions == <<<<>>, <<>>, <<>>>>

\* The documents behind the articles' URLs.
ScrapeDocuments ==
    { Document(FALSE, 404, NoEmbedding, <<>>, EmptyRegions),
      Document(FALSE, HttpOk, NoEmbedding, <<>>, EmptyRegions),
      Document(FALSE, HttpOk, Embedding(TextGraph(600)), <<>>, EmptyRegions),
      Document(FALSE, HttpOk, NoEmbedding, <<>>,
               <<<<Str(SuccessThreshold, "l")>>, <<Str(SuccessThreshold + 1, "t")>>, <<>>>>),
      Document(FALSE, HttpOk, NoEmbedding,
               <<DictBlock(DictWith(ListVal(JsonldThreshold + 1)))>>, EmptyRegions) }

\* What extract_json_from_file returns: None, or the posts of the stories page.
Unreadable == [readable |-> FALSE, posts |-> <<>>]

Stories(posts) == [readable |-> TRUE, posts |-> posts]

Posts(documents) == [i \in 1..Len(documents) |-> [id |-> i, document |-> documents[i]]]

StoryLists == {Posts(l) : l \in UNION {[1..n -> ScrapeDocuments] : n \in 0..MaxArticles}}

InitScrape ==
    /\ scrapePc = "load"
    /\ stories \in {Unreadable} \cup {Stories(l) : l \in StoryLists}
    /\ max_articles \in 0..MaxArticles
    /\ articles = <<>>
    /\ results = <<>>
    /\ saved = NothingSaved
    /\ IdleClean /\ IdleApollo /\ IdleJsonld /\ IdleTags /\ IdleCoordinator

RestScrape == UNCHANGED <<cleanVars, apolloVars, jsonldVars, tagsVars, coordVars>>

\* 'if not stories_data: return []'
LoadFails ==
    /\ scrapePc = "load"
    /\ ~stories.readable
    /\ scrapePc' = "returned"
    /\ UNCHANGED <<stories, max_articles, articles, results, saved>>
    /\ RestScrape

\* The posts are listed and, when max_articles is set, cut to that many.
LoadArticles ==
    /\ scrapePc = "load"
    /\ stories.readable
    /\ articles' = IF max_articles # 0 /\ max_articles < Len(stories.posts)
                   THEN SubSeq(stories.posts, 1, max_articles) ELSE stories.posts
    /\ scrapePc' = "loop"
    /\ UNCHANGED <<stories, max_articles, results, saved>>
    /\ RestScrape

\* One turn of 'for i, article in enumerate(articles, 1)'.
ProcessArticle ==
    /\ scrapePc = "loop"
    /\ Len(results) < Len(articles)
    /\ LET article == articles[Len(results) + 1]
       IN  results' = Append(results,
                             ArticleData(article, extract_article_content(article.document)))
    /\ UNCHANGED <<scrapePc, stories, max_articles, articles, saved>>
    /\ RestScrape

\* 'return results'
ReturnResults ==
    /\ scrapePc = "loop"
    /\ Len(results) = Len(articles)
    /\ scrapePc' = "returned"
    /\ UNCHANGED <<stories, max_articles, articles, results, saved>>
    /\ RestScrape

\* main: 'if articles: save_results(articles, ...)'
SaveResults ==
    /\ scrapePc = "returned"
    /\ results # <<>>
    /\ saved' = SavedOutput(results)
    /\ scrapePc' = "saved"
    /\ UNCHANGED <<stories, max_articles, articles, results>>
    /\ RestScrape

\* main: nothing was scraped.
NoArticles ==
    /\ scrapePc = "returned"
    /\ results = <<>>
    /\ scrapePc' = "nothing"
    /\ UNCHANGED <<stories, max_articles, articles, results, saved>>
    /\ RestScrape

NextScrape ==
    LoadFails \/ LoadArticles \/ ProcessArticle \/ ReturnResults \/ SaveResults \/ NoArticles

SpecScrape == InitScrape /\ [][NextScrape]_vars

(***************************************************************************)
(* The normalizer applied to a text, and again to its own output.          *)
(***************************************************************************)
CleanAlphabet == {" ", "\n", "<", ">", "&", "l", "t"}

CleanInputs == UNION {[1..n -> CleanAlphabet] : n \in 0..MaxTextLen}

InitClean ==
    /\ cleanPc = "input"
    /\ cleanIn \in CleanInputs
    /\ cleanOut1 = <<>>
    /\ cleanOut2 = <<>>
    /\ IdleApollo /\ IdleJsonld /\ IdleTags /\ IdleCoordinator /\ IdleScrape

CleanOnce ==
    /\ cleanPc = "input"
    /\ cleanOut1' = clean_html_content(cleanIn)
    /\ cleanPc' = "once"
    /\ UNCHANGED <<cleanIn, cleanOut2>>
    /\ UNCHANGED <<apolloVars, jsonldVars, tagsVars, coordVars, scrapeVars>>

CleanAgain ==
    /\ cleanPc = "once"
    /\ cleanOut2' = clean_html_content(cleanOut1)
    /\ cleanPc' = "twice"
    /\ UNCHANGED <<cleanIn, cleanOut1>>
    /\ UNCHANGED <<apolloVars, jsonldVars, tagsVars, coordVars, scrapeVars>>

NextClean == CleanOnce \/ CleanAgain

SpecClean == InitClean /\ [][NextClean]_vars

(***************************************************************************)
(* Properties of the graph reader (SpecApollo).                            *)
(***************************************************************************)
PostIndices(g) == {i \in 1..Len(g) : IsPost(g[i].node)}

FirstPost(g) == g[MinOf(PostIndices(g))].node

LaterPost(g) == g[MaxOf(PostIndices(g))].node

\* Both reference hops of a Post node lead somewhere: its content field names a
\* dict of the graph whose bodyModel field names a key of the graph.
HopsResolve(g, post) ==
    /\ post.content.kind = "ref"
    /\ post.content.key \in Keys(g)
    /\ Get(g, post.content.key).isDict
    /\ Get(g, post.content.key).bodyModel.kind = "ref"
    /\ Get(g, post.content.key).bodyModel.key \in Keys(g)

BodyOf(g, post) == Get(g, Get(g, post.content.key).bodyModel.key)

\* The whole chain resolves: the body node lists references to paragraph nodes
\* of the graph, each with a text.
Resolves(g, post) ==
    /\ HopsResolve(g, post)
    /\ BodyOf(g, post).isDict
    /\ BodyOf(g, post).paragraphs.kind = "list"
    /\ \A k \in 1..Len(BodyOf(g, post).paragraphs.items) :
          LET item == BodyOf(g, post).paragraphs.items[k]
          IN  /\ item.kind = "ref"
              /\ item.key \in Keys(g)
              /\ Get(g, item.key).isDict
              /\ Get(g, item.key).text.kind = "str"

\* The marking the specification gives a fragment of each type.
Marked(type, text) ==
    IF type = "H3" THEN <<"\n", "#", "#", "#", " ">> \o text \o <<"\n">>
    ELSE IF type = "H4" THEN <<"\n", "#", "#", "#", "#", " ">> \o text \o <<"\n">>
    ELSE IF type = "BQ" THEN <<"\n", ">", " ">> \o text \o <<"\n">>
    ELSE IF type = "PRE"
    THEN <<"\n", Backquote, Backquote, Backquote, "\n">> \o text
           \o <<"\n", Backquote, Backquote, Backquote, "\n">>
    ELSE text

\* The paragraph nodes of a resolving chain whose trimmed text is not empty, in
\* the order of the paragraphs list, and the text they are to produce.
NonBlank(g, post) ==
    SelectSeq(BodyOf(g, post).paragraphs.items,
              LAMBDA item : Strip(Get(g, item.key).text.s) # <<>>)

ExpectedText(g, post) ==
    LET nodes == NonBlank(g, post)
    IN  Join([k \in 1..Len(nodes) |->
                 Marked(Get(g, nodes[k].key).type, Strip(Get(g, nodes[k].key).text.s))],
             <<"\n", "\n">>)

ApolloDone == apolloPc = "done" /\ apolloIn.kind = "graph"

\* C2: for a graph whose only Post node has a chain broken at the content hop or
\* the bodyModel hop, extract_from_apollo_state returns the empty string: no
\* partial fragment list, and nothing of a raised error reaches the caller.
C2_BrokenChainGivesEmpty ==
    (/\ ApolloDone
     /\ Cardinality(PostIndices(apolloIn.graph)) = 1
     /\ ~HopsResolve(apolloIn.graph, FirstPost(apolloIn.graph)))
        => apolloOut = <<>>

\* A single Post node whose content reference names a value that is not a dict
\* (the look-up of bodyModel raises), and one whose content key is absent.
C2_Witness ==
    /\ ApolloDone
    /\ Cardinality(PostIndices(apolloIn.graph)) = 1
    /\ FirstPost(apolloIn.graph).content \in {Ref("nokey"), Ref("s")}
    /\ apolloOut = <<>>

\* C3: when the Post node's chain resolves to a list of paragraph nodes, the output
\* is the fragments of the nodes with non-empty trimmed text, marked by type,
\* in the order of the list, joined by a blank line.
C3_ResolvedChainGivesFragments ==
    (ApolloDone /\ Resolves(apolloIn.graph, FirstPost(apolloIn.graph)))
        => apolloOut = ExpectedText(apolloIn.graph, FirstPost(apolloIn.graph))

\* A resolving chain of a blank paragraph and a heading: one fragment.
C3_Witness ==
    /\ ApolloDone
    /\ Resolves(apolloIn.graph, FirstPost(apolloIn.graph))
    /\ BodyOf(apolloIn.graph, FirstPost(apolloIn.graph)).paragraphs.items
         = <<Ref("p8"), Ref("p2")>>
    /\ apolloOut = <<"\n", "#", "#", "#", " ", "t", "\n">>

\* C9 as stated: with several Post nodes only the first counts; if its chain is
\* broken the output is empty whatever a later Post node holds.
C9_OnlyFirstPost ==
    (ApolloDone /\ Cardinality(PostIndices(apolloIn.graph)) >= 2)
        => LET g == apolloIn.graph
           IN  /\ ~HopsResolve(g, FirstPost(g)) => apolloOut = <<>>
               /\ Resolves(g, FirstPost(g)) => apolloOut = ExpectedText(g, FirstPost(g))

\* The loop passes over a Post node whose content field is no reference object, or
\* whose content node (an empty dict when the key is absent) has no reference
\* object as bodyModel; it stops at a Post node that has both.
Skipped(g, post) ==
    \/ post.content.kind \in {"missing", "other"}
    \/ /\ post.content.kind = "ref"
       /\ Get(g, post.content.key).isDict
       /\ Get(g, post.content.key).bodyModel.kind \in {"missing", "other"}

Commits(g, post) ==
    /\ post.content.kind = "ref"
    /\ Get(g, post.content.key).isDict
    /\ Get(g, post.content.key).bodyModel.kind = "ref"

\* C9 amended: Post nodes are tried in encounter order; one that is skipped leaves
\* the next to be tried, and the first that has reference objects at both hops
\* decides the output alone: its fragments when its chain resolves, the empty
\* string when its bodyModel key is absent, whatever a later Post node holds.
C9_FirstCommittingPost ==
    (ApolloDone /\ Cardinality(PostIndices(apolloIn.graph)) >= 2)
        => LET g == apolloIn.graph
               first == FirstPost(g)
               later == LaterPost(g)
           IN  /\ (Commits(g, first) /\ Resolves(g, first))
                     => apolloOut = ExpectedText(g, first)
               /\ (Commits(g, first) /\ Get(g, first.content.key).bodyModel.key \notin Keys(g))
                     => apolloOut = <<>>
               /\ (Skipped(g, first) /\ Resolves(g, later))
                     => apolloOut = ExpectedText(g, later)
               /\ (Skipped(g, first) /\ Skipped(g, later)) => apolloOut = <<>>

\* The first Post node has no content field, the second resolves: its text is read.
C9_Witness ==
    /\ ApolloDone
    /\ Cardinality(PostIndices(apolloIn.graph)) = 2
    /\ FirstPost(apolloIn.graph).content = Missing
    /\ Resolves(apolloIn.graph, LaterPost(apolloIn.graph))
    /\ apolloOut # <<>>

(***************************************************************************)
(* Properties of the structured-data reader (SpecJsonld).                  *)
(***************************************************************************)
\* A block that parses and carries the article-body field, and the field's value.
Carries(block) ==
    \/ block.kind = "dict" /\ block.items[1].has
    \/ block.kind = "list" /\ \E k \in 1..Len(block.items) :
                                   block.items[k].isDict /\ block.items[k].has

CarriedBody(block) ==
    LET k == MinOf({x \in 1..Len(block.items) : block.items[x].isDict /\ block.items[x].has})
    IN  block.items[k].body

\* C10: the reader returns the article-body field of the first block, in document
\* order, that parses and carries it, passing over blocks that fail to parse or
\* carry no such field; it returns the empty string if no block carries it; and
\* what it returns is a plain text string.
C10_FirstCarriedBodyAsText ==
    jsonldPc = "done"
        => LET carrying == {i \in 1..Len(jsonldIn) : Carries(jsonldIn[i])}
           IN  /\ jsonldOut.kind = "str"
               /\ jsonldOut = IF carrying = {} THEN StrVal(<<>>)
                              ELSE CarriedBody(jsonldIn[MinOf(carrying)])

(***************************************************************************)
(* Properties of the tag-region extractor (SpecTags).                      *)
(***************************************************************************)
\* The candidate regions: pattern by pattern, in document order within a pattern.
Candidates(regions) == regions[Article] \o regions[PostArticleDiv] \o regions[BodySection]

\* C5: the extractor returns the cleaned text of the first candidate whose cleaned
\* length is greater than 200 (200 is rejected, 201 accepted), and the empty
\* string when there is none: its result is empty or longer than 200.
C5_FirstRegionOver200 ==
    tagsPc = "done"
        => LET cands == Candidates(tagsIn)
               long == {k \in 1..Len(cands) : Len(clean_html_content(cands[k])) >= 201}
           IN  /\ tagsOut = IF long = {} THEN <<>>
                            ELSE clean_html_content(cands[MinOf(long)])
               /\ tagsOut = <<>> \/ Len(tagsOut) > 200

\* A region of a later pattern with 201 cleaned characters is returned after a
\* region of an earlier pattern with exactly 200 was rejected.
C5_Witness ==
    /\ tagsPc = "done"
    /\ tagsIn[Article] # <<>>
    /\ \A k \in 1..Len(tagsIn[Article]) : Len(clean_html_content(tagsIn[Article][k])) = 200
    /\ tagsIn[PostArticleDiv] # <<>>
    /\ Len(tagsOut) = 201

(***************************************************************************)
(* Properties of the coordinator (Spec).                                   *)
(***************************************************************************)
GraphText == extract_from_apollo_state(doc.apollo)

StructuredValue == extract_from_jsonld(doc.jsonld)

\* C1: the strategies run at most once each, in the order graph reader,
\* structured-data reader, tag-region extractor; a graph text longer than 500 is
\* returned and ends the run; the second runs only after a graph text of 500 or
\* fewer, the third only after two results of 500 or fewer.
C1_StrategyOrder ==
    /\ calls \in {<<>>, <<"apollo">>, <<"apollo", "jsonld">>, <<"apollo", "jsonld", "tags">>}
    /\ (calls # <<>> /\ Len(GraphText) > 500)
          => (calls = <<"apollo">> /\ pc = "done" /\ result = StrVal(GraphText))
    /\ Len(calls) >= 2 => Len(GraphText) <= 500
    /\ Len(calls) >= 3 => (HasLen(StructuredValue) => PyLen(StructuredValue) <= 500)

\* The graph yields 600 characters and the structured data would yield 800: the
\* 600 are returned and only the graph reader ran.
C1_Witness ==
    /\ pc = "done"
    /\ calls = <<"apollo">>
    /\ result.kind = "str" /\ Len(result.s) = 600
    /\ StructuredValue.kind = "str" /\ Len(StructuredValue.s) = 800

\* C4: when the document was fetched and neither the graph reader nor the
\* structured-data reader produced a text longer than 500 characters, what is
\* returned is what the tag-region extractor yields.
C4_FallsThroughToTags ==
    (/\ pc = "done"
     /\ ~doc.raises /\ doc.status_code = HttpOk
     /\ Len(GraphText) <= 500
     /\ ~(StructuredValue.kind = "str" /\ Len(StructuredValue.s) > 500))
        => result = StrVal(extract_from_article_tags(doc.regions))

\* The Post nodes of a graph and the reference objects in its paragraph lists.
RECURSIVE ParagraphRefs(_)
ParagraphRefs(g) ==
    IF g = <<>> THEN 0
    ELSE Len(SelectSeq(g[1].node.paragraphs.items, IsRef)) + ParagraphRefs(Tail(g))

\* C6: whatever the fetch and the document, extract_article_content ends with a
\* string, and the graph reader's look-ups are bounded by the Post nodes (two
\* hops each) and the paragraph references of the graph.
C6_EndsWithString ==
    /\ pc = "done" => result.kind = "str"
    /\ ApolloRun(doc.apollo).lookups
          <= 2 * Cardinality(PostIndices(doc.apollo.graph)) + ParagraphRefs(doc.apollo.graph)

(***************************************************************************)
(* Properties of the scraping run (SpecScrape).                            *)
(***************************************************************************)
\* C8: the summary counts the records and the records flagged successful; a
\* record is flagged exactly when its content_length, the length of its content,
\* is greater than 200; the records are saved in the order they were processed.
C8_SummaryMatchesRecords ==
    /\ \A i \in 1..Len(results) :
          /\ results[i].id = articles[i].id
          /\ results[i].content = extract_article_content(articles[i].document)
          /\ results[i].content_length = PyLen(results[i].content)
          /\ results[i].extraction_successful <=> results[i].content_length > 200
    /\ scrapePc = "saved"
          => /\ saved.written
             /\ saved.total_articles = Len(results)
             /\ saved.successful_extractions
                  = Cardinality({i \in 1..Len(results) : results[i].extraction_successful})
             /\ saved.articles = results
             /\ Len(results) = Len(articles)

\* Two records saved, one successful and one not: total 2, successful 1.
C8_Witness ==
    /\ scrapePc = "saved"
    /\ Len(saved.articles) = 2
    /\ saved.articles[1].extraction_successful
    /\ ~saved.articles[2].extraction_successful
    /\ saved.total_articles = 2
    /\ saved.successful_extractions = 1

(***************************************************************************)
(* Properties of the normalizer (SpecClean).                               *)
(***************************************************************************)
\* No match of '<[^>]+>': the text contains no tag.
TagFree(s) ==
    \A i \in 1..Len(s) : s[i] = "<" => IndexOf(s, ">", i + 1) \in {0, i + 1}

NoReference(s) == \A i \in 1..Len(s) : s[i] # "&"

\* No run of two spaces and no whitespace run holding three line breaks.
WhitespaceClean(s) ==
    /\ \A i \in 1..(Len(s) - 1) : ~(s[i] = " " /\ s[i + 1] = " ")
    /\ \A i \in 1..Len(s) : \A j \in i..Len(s) :
          (\A k \in i..j : IsSpace(s[k]))
             => Cardinality({k \in i..j : s[k] = "\n"}) <= 2

\* C7 as stated: on a text without tags the normalizer returns the text trimmed,
\* and returns its own output unchanged.
C7_TrimsAndIdempotent ==
    (cleanPc = "twice" /\ TagFree(cleanIn))
        => (cleanOut1 = Strip(cleanIn) /\ cleanOut2 = cleanOut1)

\* C7 amended: on a text without tags and without '&', the normalizer returns its
\* own output unchanged; and it returns the text trimmed when the text has no run
\* of spaces and no whitespace run of three or more line breaks to collapse.
C7_IdempotentOnPlainText ==
    (cleanPc = "twice" /\ TagFree(cleanIn) /\ NoReference(cleanIn))
        => /\ cleanOut2 = cleanOut1
           /\ WhitespaceClean(cleanIn) => cleanOut1 = Strip(cleanIn)

\* A plain text with surrounding whitespace is trimmed and then left alone, and a
\* plain text with a run of spaces is collapsed and then left alone.
C7_Witness ==
    /\ cleanPc = "twice"
    /\ cleanIn \in {<<" ", "l", " ", "t">>, <<"l", " ", " ", "t">>}
    /\ cleanOut1 = <<"l", " ", "t">>
    /\ cleanOut2 = cleanOut1

====
